---------------------------- MODULE Spec2Model ----------------------------
(***************************************************************************)
(* A model of src/LR4.py: the StudentReference record, the                 *)
(* ReferenceCollection / EnhancedReferenceCollection container with its    *)
(* CSV load and save, and the interactive session of main().               *)
(*                                                                         *)
(* Python values are modelled as tagged records so that None, text and     *)
(* floats can be told apart: [k |-> kind, s |-> text, n |-> number].       *)
(* Floats are modelled by the whole numbers they hold; the text of a       *)
(* float is modelled separately (FloatStr / ParseFloat).                   *)
(***************************************************************************)
EXTENDS Integers, Sequences, FiniteSets, TLC

VARIABLES
    rec,        \* a StudentReference under construction / validation
    data,       \* ReferenceCollection._data
    index,      \* ReferenceCollection._index (Unset until __iter__ is called)
    fs,         \* what is stored at the CSV path (NoFile or a file)
    out,        \* the outcome of the last operation
    loops,      \* the client for-loops traversing the collection
    collection, \* main(): whether the local `collection` is None or an object
    pc          \* main(): "menu", "exited" or "crashed"

vars == <<rec, data, index, fs, out, loops, collection, pc>>

-----------------------------------------------------------------------------
(* Bounds of the model *)

MaxLen == 2
MaxSortLen == 3
MaxRows == 2

-----------------------------------------------------------------------------
(* Python values *)

NoneV == [k |-> "none", s |-> "", n |-> 0]
Str(t) == [k |-> "str", s |-> t, n |-> 0]
Num(x) == [k |-> "num", s |-> "", n |-> x]

\* bool(v) for None, str and float
Truthy(v) ==
    CASE v.k = "none" -> FALSE
      [] v.k = "str" -> v.s # ""
      [] v.k = "num" -> v.n # 0

\* a < b raises TypeError unless both are floats or both are text
Comparable(a, b) == a.k = b.k /\ a.k # "none"

\* text is ordered lexicographically; the model's names are single letters
Letters == <<"", "A", "B", "C">>
Rank(t) == CHOOSE i \in 1..Len(Letters) : Letters[i] = t

Less(a, b) ==
    IF a.k = "num" THEN a.n < b.n ELSE Rank(a.s) < Rank(b.s)

-----------------------------------------------------------------------------
(* StudentReference *)

_fields == <<"id", "date", "full_name", "stipend", "destination">>
FieldSet == {_fields[i] : i \in 1..Len(_fields)}

\* __init__(**kwargs): every field is kwargs.get(key, None).  oid stands for
\* the identity of the Python object, cls for its class.
StudentReference(kwargs, oid) ==
    [cls |-> "StudentReference", oid |-> oid,
     id |-> IF "id" \in DOMAIN kwargs THEN kwargs["id"] ELSE NoneV,
     date |-> IF "date" \in DOMAIN kwargs THEN kwargs["date"] ELSE NoneV,
     full_name |-> IF "full_name" \in DOMAIN kwargs THEN kwargs["full_name"] ELSE NoneV,
     stipend |-> IF "stipend" \in DOMAIN kwargs THEN kwargs["stipend"] ELSE NoneV,
     destination |-> IF "destination" \in DOMAIN kwargs THEN kwargs["destination"] ELSE NoneV]

\* validate with any() in place of all()
ValidateAny(r) ==
    IF Truthy(r.id) \/ Truthy(r.date) \/ Truthy(r.full_name)
       \/ Truthy(r.stipend) \/ Truthy(r.destination)
    THEN "ok" ELSE "ValueError"

\* validate(): all([...]) of the five fields, else ValueError
Validate(r) ==
    IF Truthy(r.id) /\ Truthy(r.date) /\ Truthy(r.full_name)
       /\ Truthy(r.stipend) /\ Truthy(r.destination)
    THEN "ok" ELSE "ValueError"

\* to_dict(): the five values keyed by the CSV column names
ColId == "No"
ColDate == "data"
ColName == "FIO studenta"
ColStipend == "razmer stipendii"
ColDest == "kuda vydaetsya spravka"
fieldnames == <<ColId, ColDate, ColName, ColStipend, ColDest>>

\* to_dict with the date and the name under each other's key
ToDictSwapped(r) ==
    (ColId :> r.id) @@ (ColDate :> r.full_name) @@ (ColName :> r.date)
    @@ (ColStipend :> r.stipend) @@ (ColDest :> r.destination)

to_dict(r) ==
    (ColId :> r.id) @@ (ColDate :> r.date) @@ (ColName :> r.full_name)
    @@ (ColStipend :> r.stipend) @@ (ColDest :> r.destination)

-----------------------------------------------------------------------------
(* Values the model draws from *)

Unset == -1
NoFile == [exists |-> FALSE, header |-> <<>>, rows |-> <<>>]
Idle == [op |-> "none", res |-> "ok"]
NoLoops == [i \in 1..2 |-> [st |-> "idle", seen |-> <<>>]]

RecTexts == {NoneV, Str(""), Str("A")}
RecNums == {NoneV, Num(0), Num(900)}
FieldVals(f) == IF f = "stipend" THEN RecNums ELSE RecTexts
Kwargs ==
    UNION {[S -> RecTexts \cup RecNums] : S \in SUBSET FieldSet}
TypedKwargs == {kw \in Kwargs : \A f \in DOMAIN kw : kw[f] \in FieldVals(f)}

-----------------------------------------------------------------------------
(* ReferenceCollection: the operations on _data and _index *)

IsInstance(item) == item.cls = "StudentReference"

\* add without the isinstance check
AddNoCheck(d, item) == [res |-> "ok", data |-> Append(d, item)]

\* add that inserts at the front
AddInFront(d, item) ==
    IF ~IsInstance(item)
    THEN [res |-> "TypeError", data |-> d]
    ELSE [res |-> "ok", data |-> <<item>> \o d]

\* add(item): TypeError for anything but a StudentReference, else append
add(d, item) ==
    IF ~IsInstance(item)
    THEN [res |-> "TypeError", data |-> d]
    ELSE [res |-> "ok", data |-> Append(d, item)]

\* __getitem__(index) on a Python list: 0-based, negative counts from the end
GetItem(d, i) ==
    IF i >= 0 /\ i < Len(d) THEN [res |-> "ok", item |-> d[i + 1]]
    ELSE IF i < 0 /\ -i <= Len(d) THEN [res |-> "ok", item |-> d[Len(d) + i + 1]]
    ELSE [res |-> "IndexError", item |-> NoneV]

\* __next__(): AttributeError while _index does not exist yet
NextItem(d, idx) ==
    IF idx = Unset THEN [res |-> "AttributeError", item |-> NoneV, index |-> idx]
    ELSE IF idx < Len(d) THEN [res |-> "ok", item |-> d[idx + 1], index |-> idx + 1]
    ELSE [res |-> "StopIteration", item |-> NoneV, index |-> idx]

\* the filter with >= in place of >
FilterGe(d, value) ==
    [res |-> "ok",
     yielded |-> SelectSeq(d, LAMBDA r : r.stipend.k = "num" /\ r.stipend.n >= value)]

\* filter_by_stipend(value), consumed to its end: the generator walks _data and
\* yields the items with item.stipend > value; the comparison raises TypeError
\* on a stipend that is not a number, which ends the generator there.
RECURSIVE Generate(_, _, _, _)
Generate(d, value, i, acc) ==
    IF i > Len(d) THEN [res |-> "ok", yielded |-> acc]
    ELSE IF d[i].stipend.k # "num" THEN [res |-> "TypeError", yielded |-> acc]
    ELSE Generate(d, value, i + 1,
                  IF d[i].stipend.n > value THEN Append(acc, d[i]) ELSE acc)

filter_by_stipend(d, value) == Generate(d, value, 1, <<>>)

\* the sort keys of sort_by: lambda x: x.full_name, lambda x: x.stipend
KeyOf(r, field) == IF field = "name" THEN r.full_name ELSE r.stipend

SetMin(S) == CHOOSE m \in S : \A o \in S : m <= o

\* x goes behind every element whose key is not greater than its own
Insert(s, x, field) ==
    LET after == {i \in 1..Len(s) : Less(KeyOf(x, field), KeyOf(s[i], field))}
        p == IF after = {} THEN Len(s) + 1 ELSE SetMin(after)
    IN SubSeq(s, 1, p - 1) \o <<x>> \o SubSeq(s, p, Len(s))

\* list.sort(key=...): a stable ascending sort (insertion sort on short lists)
RECURSIVE StableSort(_, _)
StableSort(d, field) ==
    IF d = <<>> THEN <<>>
    ELSE Insert(StableSort(SubSeq(d, 1, Len(d) - 1), field), d[Len(d)], field)

\* list.sort compares every element with another one when there are two or
\* more, so it raises TypeError as soon as two keys cannot be compared
SortRaises(d, field) ==
    \E i, j \in 1..Len(d) :
        i # j /\ ~Comparable(KeyOf(d[i], field), KeyOf(d[j], field))

Rearrangements(d) ==
    {[i \in 1..Len(d) |-> d[f[i]]] : f \in Permutations(1..Len(d))}

\* sort_by that sorts by name whatever the field
SortByAnyField(d, field) ==
    IF SortRaises(d, "name")
    THEN [res |-> "TypeError", data |-> Rearrangements(d)]
    ELSE [res |-> "ok", data |-> {StableSort(d, "name")}]

\* sort_by with the two keys mixed up
SortBySwapped(d, field) ==
    LET key == IF field = "name" THEN "stipend" ELSE "name"
    IN IF field \in {"name", "stipend"}
       THEN IF SortRaises(d, key)
            THEN [res |-> "TypeError", data |-> Rearrangements(d)]
            ELSE [res |-> "ok", data |-> {StableSort(d, key)}]
       ELSE [res |-> "ok", data |-> {d}]

\* sort_by(field): 'name' and 'stipend' sort in place, anything else does
\* nothing.  A sort that raises leaves the list in some order of its items.
sort_by(d, field) ==
    IF field \in {"name", "stipend"}
    THEN IF SortRaises(d, field)
         THEN [res |-> "TypeError", data |-> Rearrangements(d)]
         ELSE [res |-> "ok", data |-> {StableSort(d, field)}]
    ELSE [res |-> "ok", data |-> {d}]

-----------------------------------------------------------------------------
(* The CSV file.  A file is modelled after the csv module has split it:    *)
(* a header row and data rows, each a sequence of text cells.              *)

\* str(float) as csv.writer writes it: 900.0 is written "900.0"
FloatStr(x) == ToString(x) \o ".0"

\* the texts float() accepts in the model, with the float each one denotes
FloatTable ==
    {<<"0.0", 0>>, <<"900.0", 900>>, <<"1500.0", 1500>>, <<"2000.0", 2000>>,
     <<"900", 900>>, <<" 1500 ", 1500>>, <<"0", 0>>}

\* float(text): ValueError for a text that is no number
ParseFloat(t) ==
    IF \E p \in FloatTable : p[1] = t
    THEN [res |-> "ok", n |-> (CHOOSE p \in FloatTable : p[1] = t)[2]]
    ELSE [res |-> "ValueError", n |-> 0]

\* csv.writer writes None as the empty text, text as it is, a float by str()
WriteCell(v) ==
    CASE v.k = "none" -> ""
      [] v.k = "str" -> v.s
      [] v.k = "num" -> FloatStr(v.n)

\* DictWriter.writerow(item.to_dict()): the cells in the order of fieldnames
writerow(rowdict) == [i \in 1..Len(fieldnames) |-> WriteCell(rowdict[fieldnames[i]])]

\* save_to_csv(filename): nothing is written for an empty collection
save_to_csv(d, f) ==
    IF d = <<>>
    THEN [res |-> "nodata", fs |-> f]
    ELSE [res |-> "saved",
          fs |-> [exists |-> TRUE, header |-> fieldnames,
                  rows |-> [i \in 1..Len(d) |-> writerow(to_dict(d[i]))]]]

\* row[key] of csv.DictReader: KeyError when the header has no such column,
\* None (restval) when the row is shorter than the header
SetMax(S) == CHOOSE m \in S : \A o \in S : m >= o
RowGet(header, cells, key) ==
    LET cols == {i \in 1..Len(header) : header[i] = key}
    IN IF cols = {} THEN [res |-> "KeyError", v |-> NoneV]
       ELSE IF SetMax(cols) <= Len(cells)
            THEN [res |-> "ok", v |-> Str(cells[SetMax(cols)])]
            ELSE [res |-> "ok", v |-> NoneV]

\* float(x): TypeError for None, ValueError for a text that is no number
ToFloat(v) ==
    IF v.k = "none" THEN [res |-> "TypeError", v |-> NoneV]
    ELSE IF ParseFloat(v.s).res = "ok"
         THEN [res |-> "ok", v |-> Num(ParseFloat(v.s).n)]
         ELSE [res |-> "ValueError", v |-> NoneV]

\* the body of the row loop of from_csv: the five lookups in the order of
\* the call's arguments, float() of the stipend cell, then validate()
RowToRef(header, cells, oid) ==
    LET cid == RowGet(header, cells, ColId)
        cdate == RowGet(header, cells, ColDate)
        cname == RowGet(header, cells, ColName)
        cstip == RowGet(header, cells, ColStipend)
        cdest == RowGet(header, cells, ColDest)
        ref == StudentReference(
                 [f \in FieldSet |->
                    CASE f = "id" -> cid.v
                      [] f = "date" -> cdate.v
                      [] f = "full_name" -> cname.v
                      [] f = "stipend" -> ToFloat(cstip.v).v
                      [] f = "destination" -> cdest.v], oid)
    IN CASE cid.res # "ok" -> [res |-> "KeyError", ref |-> ref]
         [] cid.res = "ok" /\ cdate.res # "ok" -> [res |-> "KeyError", ref |-> ref]
         [] cid.res = "ok" /\ cdate.res = "ok" /\ cname.res # "ok" ->
                [res |-> "KeyError", ref |-> ref]
         [] OTHER ->
                IF cstip.res # "ok" THEN [res |-> "KeyError", ref |-> ref]
                ELSE IF ToFloat(cstip.v).res # "ok"
                     THEN [res |-> ToFloat(cstip.v).res, ref |-> ref]
                ELSE IF cdest.res # "ok" THEN [res |-> "KeyError", ref |-> ref]
                ELSE [res |-> Validate(ref), ref |-> ref]

\* the row loop of from_csv: DictReader skips rows without cells; KeyError and
\* ValueError end the load with None; any other exception leaves from_csv
RECURSIVE LoadRows(_, _, _, _)
LoadRows(header, rows, i, acc) ==
    IF i > Len(rows) THEN [res |-> "ok", exc |-> "", data |-> acc]
    ELSE IF rows[i] = <<>> THEN LoadRows(header, rows, i + 1, acc)
    ELSE LET r == RowToRef(header, rows[i], Len(acc) + 1)
         IN IF r.res = "ok"
            THEN LoadRows(header, rows, i + 1, add(acc, r.ref).data)
            ELSE IF r.res \in {"KeyError", "ValueError"}
                 THEN [res |-> "None", exc |-> r.res, data |-> <<>>]
                 ELSE [res |-> "raise", exc |-> r.res, data |-> <<>>]

\* from_csv(filename)
from_csv(f) ==
    IF ~f.exists THEN [res |-> "None", exc |-> "FileNotFoundError", data |-> <<>>]
    ELSE LoadRows(f.header, f.rows, 1, <<>>)

-----------------------------------------------------------------------------
(* Spec: one collection driven through its public operations *)

\* a filled-in reference with the given name and stipend
MkRef(name, stipend, oid) ==
    StudentReference(
        [f \in FieldSet |->
            CASE f = "full_name" -> name
              [] f = "stipend" -> stipend
              [] OTHER -> Str("A")], oid)

\* an object that is no StudentReference (the dict of a row, say)
NotARef(oid) == [MkRef(Str("A"), Num(900), oid) EXCEPT !.cls = "dict"]

\* what a caller may hand to add: valid references, one with stipend 0.0,
\* one with nothing set, and an object of another class
Items(oid) ==
    {MkRef(Str("B"), Num(900), oid), MkRef(Str("A"), Num(1500), oid),
     MkRef(Str("A"), Num(0), oid), StudentReference(<<>>, oid), NotARef(oid)}

SortFields == {"name", "stipend", "id"}
Thresholds == {900, 1000}

Init ==
    /\ data = <<>> /\ index = Unset
    /\ fs = NoFile /\ out = Idle
    /\ rec = StudentReference(<<>>, 1)
    /\ loops = NoLoops /\ collection = "None" /\ pc = "menu"

Add(item) ==
    /\ IsInstance(item) => Len(data) < MaxLen
    /\ data' = add(data, item).data
    /\ out' = [op |-> "add", res |-> add(data, item).res, item |-> item]
    /\ UNCHANGED <<rec, index, fs, loops, collection, pc>>

SortBy(field) ==
    /\ data' \in sort_by(data, field).data
    /\ out' = [op |-> "sort_by", res |-> sort_by(data, field).res, field |-> field]
    /\ UNCHANGED <<rec, index, fs, loops, collection, pc>>

FilterByStipend(value) ==
    /\ out' = [op |-> "filter_by_stipend", value |-> value,
               res |-> filter_by_stipend(data, value).res,
               yielded |-> filter_by_stipend(data, value).yielded]
    /\ UNCHANGED <<rec, data, index, fs, loops, collection, pc>>

Index(i) ==
    /\ out' = [op |-> "__getitem__", res |-> GetItem(data, i).res,
               item |-> GetItem(data, i).item]
    /\ UNCHANGED <<rec, data, index, fs, loops, collection, pc>>

\* __iter__(): _index = 0
Iter ==
    /\ index' = 0
    /\ out' = [op |-> "__iter__", res |-> "ok"]
    /\ UNCHANGED <<rec, data, fs, loops, collection, pc>>

Next_ ==
    /\ index' = NextItem(data, index).index
    /\ out' = [op |-> "__next__", res |-> NextItem(data, index).res,
               item |-> NextItem(data, index).item]
    /\ UNCHANGED <<rec, data, fs, loops, collection, pc>>

Save ==
    /\ fs' = save_to_csv(data, fs).fs
    /\ out' = [op |-> "save_to_csv", res |-> save_to_csv(data, fs).res]
    /\ UNCHANGED <<rec, data, index, loops, collection, pc>>

\* c = from_csv(path): when a collection is returned, it is the one the
\* caller goes on with (a new object, so _index does not exist yet)
Load ==
    /\ out' = [op |-> "from_csv", res |-> from_csv(fs).res, exc |-> from_csv(fs).exc]
    /\ IF from_csv(fs).res = "ok"
       THEN data' = from_csv(fs).data /\ index' = Unset
       ELSE UNCHANGED <<data, index>>
    /\ UNCHANGED <<rec, fs, loops, collection, pc>>

Next ==
    \/ \E item \in Items(Len(data) + 1) : Add(item)
    \/ \E field \in SortFields : SortBy(field)
    \/ \E value \in Thresholds : FilterByStipend(value)
    \/ \E i \in -1..MaxLen : Index(i)
    \/ Iter
    \/ Next_
    \/ Save
    \/ Load

Spec == Init /\ [][Next]_vars

\* C1 as stated: every stored element is a StudentReference on which
\* validate() succeeds.
C1_Original ==
    \A i \in 1..Len(data) : IsInstance(data[i]) /\ Validate(data[i]) = "ok"

\* C1 as amended: every stored element is a StudentReference (add refuses any
\* other object), and a collection returned by from_csv holds only references
\* on which validate() succeeds; add itself does not validate.
C1_StoredAreReferences ==
    /\ \A i \in 1..Len(data) : IsInstance(data[i])
    /\ (out.op = "add" /\ ~IsInstance(out.item)) => out.res = "TypeError"
    /\ (out.op = "from_csv" /\ out.res = "ok") =>
          \A i \in 1..Len(data) : Validate(data[i]) = "ok"

\* add has just refused an object of another class while the collection
\* holds a reference that fails validate()
C1_Witness ==
    /\ out.op = "add" /\ out.res = "TypeError"
    /\ \E i \in 1..Len(data) : Validate(data[i]) = "ValueError"

\* C2: add of an object that is no StudentReference fails with TypeError and
\* leaves _data as it was; add of a StudentReference appends it as the last
\* element and leaves the earlier elements in place.
C2_AddRejectsOrAppends ==
    [][out'.op = "add" =>
        IF out'.item.cls = "StudentReference"
        THEN /\ out'.res = "ok"
             /\ Len(data') = Len(data) + 1
             /\ data'[Len(data')] = out'.item
             /\ \A i \in 1..Len(data) : data'[i] = data[i]
        ELSE /\ out'.res = "TypeError"
             /\ Len(data') = Len(data)
             /\ data' = data]_vars

\* a non-reference has been refused by a collection that already holds one
\* reference
C2_Witness ==
    /\ out.op = "add" /\ out.res = "TypeError" /\ out.item.cls = "dict"
    /\ Len(data) = 1

InsertionOrder(d) == \A i \in 1..Len(d) : d[i].oid = i

\* C8: as long as no sort by 'name' or 'stipend' is requested, the stored
\* sequence is the references in the order they were added (oid is the rank
\* of insertion): add, iteration, indexing, filtering, saving and sort_by with
\* any other field keep it so, and such a sort_by call raises nothing.
C8_OrderKeptUnlessSorted ==
    [][(InsertionOrder(data)
        /\ ~(out'.op = "sort_by" /\ out'.field \in {"name", "stipend"}))
       => /\ InsertionOrder(data')
          /\ out'.op = "sort_by" => (out'.res = "ok" /\ data' = data)
          /\ out'.op \in {"__iter__", "__next__", "__getitem__",
                          "filter_by_stipend", "save_to_csv"} => data' = data]_vars

\* sort_by with another field has run on two references that a sort by
\* name and a sort by stipend would both have swapped
C8_Witness ==
    /\ out.op = "sort_by" /\ out.field = "id"
    /\ Len(data) = 2 /\ InsertionOrder(data)
    /\ data[1].full_name = Str("B") /\ data[2].full_name = Str("A")
    /\ data[1].stipend = Num(900) /\ data[2].stipend = Num(0)

-----------------------------------------------------------------------------
(* SpecSort: sort_by and filter_by_stipend applied to collections of up to *)
(* MaxSortLen references, with equal names, equal stipends and unset fields *)

SortPool(oid) ==
    {MkRef(Str("A"), Num(900), oid), MkRef(Str("B"), Num(900), oid),
     MkRef(Str("A"), Num(1500), oid), StudentReference(<<>>, oid)}

\* the collections add can build from the pool: the i-th added has oid i
RECURSIVE Built(_)
Built(n) ==
    IF n = 0 THEN {<<>>}
    ELSE {Append(d, r) : d \in Built(n - 1), r \in SortPool(n)}

InitSort ==
    /\ data \in UNION {Built(n) : n \in 0..MaxSortLen}
    /\ index = Unset /\ fs = NoFile /\ out = Idle
    /\ rec = StudentReference(<<>>, 1)
    /\ loops = NoLoops /\ collection = "None" /\ pc = "menu"

NextSort ==
    \/ \E field \in SortFields : SortBy(field)
    \/ \E value \in Thresholds : FilterByStipend(value)

SpecSort == InitSort /\ [][NextSort]_vars

AllNamesText(d) == \A i \in 1..Len(d) : d[i].full_name.k = "str"
AllStipendsNumbers(d) == \A i \in 1..Len(d) : d[i].stipend.k = "num"
Above(d, value) ==
    SelectSeq(d, LAMBDA r : r.stipend.k = "num" /\ r.stipend.n > value)

\* C5 as stated: for every collection and threshold the filter yields exactly
\* the stored references with stipend > x, in stored order, and ends normally
\* with _data as it was.
C5_Original ==
    [][out'.op = "filter_by_stipend" =>
        /\ out'.res = "ok"
        /\ out'.yielded = Above(data, out'.value)
        /\ data' = data]_vars

\* C5 as amended: for every collection whose references all hold a number as
\* stipend, the filter yields exactly those with stipend > x (equal to x is
\* left out), in stored order, and _data is afterwards as it was before.
C5_FilterStrictlyAbove ==
    [][(out'.op = "filter_by_stipend" /\ AllStipendsNumbers(data)) =>
        /\ out'.res = "ok"
        /\ out'.yielded = Above(data, out'.value)
        /\ data' = data]_vars

\* stipends 900, 1500, 900 filtered by 900 have yielded the middle one only
C5_Witness ==
    /\ out.op = "filter_by_stipend" /\ out.value = 900 /\ out.res = "ok"
    /\ Len(data) = 3
    /\ data[1].stipend = Num(900) /\ data[2].stipend = Num(1500)
    /\ data[3].stipend = Num(900)
    /\ out.yielded = <<data[2]>>

\* what C6 says of one sort_by(field) step from d to e
IsPermutation(d, e) ==
    /\ Len(d) = Len(e)
    /\ \A i \in 1..Len(d) : \E j \in 1..Len(e) : e[j] = d[i]
    /\ \A j \in 1..Len(e) : \E i \in 1..Len(d) : e[j] = d[i]
NonDecreasing(e, field) ==
    \A i, j \in 1..Len(e) :
        i < j => /\ Comparable(KeyOf(e[i], field), KeyOf(e[j], field))
                 /\ ~Less(KeyOf(e[j], field), KeyOf(e[i], field))
PlaceIn(d, r) == CHOOSE i \in 1..Len(d) : d[i] = r
KeepsTies(d, e, field) ==
    \A i, j \in 1..Len(e) :
        (i < j /\ KeyOf(e[i], field) = KeyOf(e[j], field))
            => PlaceIn(d, e[i]) < PlaceIn(d, e[j])
SortedStep(d, e, field) ==
    /\ IsPermutation(d, e)
    /\ NonDecreasing(e, field)
    /\ KeepsTies(d, e, field)

\* C6 as stated: for every collection, sort_by('name') and sort_by('stipend')
\* leave a permutation that is non-decreasing in the key and keeps the order
\* of equal keys, and the same sort_by applied again changes nothing.
C6_Original ==
    [][(out'.op = "sort_by" /\ out'.field \in {"name", "stipend"}) =>
        /\ out'.res = "ok"
        /\ SortedStep(data, data', out'.field)
        /\ (out.op = "sort_by" /\ out.field = out'.field) => data' = data]_vars

\* C6 as amended: the same, for every collection whose full names are all
\* text (sort by name), respectively whose stipends are all numbers (sort by
\* stipend).
C6_SortStableIdempotent ==
    [][(/\ out'.op = "sort_by"
        /\ \/ out'.field = "name" /\ AllNamesText(data)
           \/ out'.field = "stipend" /\ AllStipendsNumbers(data)) =>
        /\ out'.res = "ok"
        /\ SortedStep(data, data', out'.field)
        /\ (out.op = "sort_by" /\ out.field = out'.field) => data' = data]_vars

\* a sort by stipend has moved the 1500 behind two references of stipend 900
\* that keep their order of insertion
C6_Witness ==
    /\ out.op = "sort_by" /\ out.field = "stipend" /\ out.res = "ok"
    /\ Len(data) = 3
    /\ data[1].stipend = Num(900) /\ data[1].oid = 2
    /\ data[2].stipend = Num(900) /\ data[2].oid = 3
    /\ data[3].stipend = Num(1500) /\ data[3].oid = 1

-----------------------------------------------------------------------------
(* SpecCsv: save_to_csv and from_csv over collections and over files with  *)
(* well-formed, malformed, short, long and blank rows                      *)

GoodRow == <<"A", "A", "A", "900.0", "A">>
RowPool ==
    {GoodRow,
     <<"A", "A", "B", " 1500 ", "A">>,      \* another spelling of a float
     <<"A", "A", "A", "abc", "A">>,         \* stipend is no number
     <<"A", "A", "A", "0.0", "A">>,         \* stipend 0.0
     <<"A", "A", "", "900", "A">>,          \* empty full name
     <<"A", "A", "A">>,                     \* no stipend and destination cells
     <<"A", "A", "A", "900.0">>,            \* no destination cell
     <<"A", "A", "A", "900.0", "A", "A">>,  \* one cell too many
     <<>>}                                  \* a blank line

Headers == {fieldnames, <<ColId, ColDate, ColName, ColDest>>}

RECURSIVE RowSeqs(_)
RowSeqs(n) ==
    IF n = 0 THEN {<<>>}
    ELSE {Append(rs, r) : rs \in RowSeqs(n - 1), r \in RowPool}

Files ==
    {NoFile}
    \cup {[exists |-> TRUE, header |-> h, rows |-> rs] :
            h \in Headers, rs \in UNION {RowSeqs(n) : n \in 0..MaxRows}}

SavePool(oid) == {r \in Items(oid) : IsInstance(r)}

RECURSIVE Saveable(_)
Saveable(n) ==
    IF n = 0 THEN {<<>>}
    ELSE {Append(d, r) : d \in Saveable(n - 1), r \in SavePool(n)}

OldFile == [exists |-> TRUE, header |-> fieldnames, rows |-> <<GoodRow>>]

InitCsv ==
    /\ \/ /\ data \in UNION {Saveable(n) : n \in 0..MaxLen}
          /\ fs \in {NoFile, OldFile}
       \/ /\ data = <<>>
          /\ fs \in Files
    /\ index = Unset /\ out = Idle
    /\ rec = StudentReference(<<>>, 1)
    /\ loops = NoLoops /\ collection = "None" /\ pc = "menu"

NextCsv == Save \/ Load

SpecCsv == InitCsv /\ [][NextCsv]_vars

\* what C3 calls a well-formed and valid row: a cell for each of the five
\* columns, a number as stipend, and nothing empty or zero
HasCell(header, cells, col) ==
    \E i \in 1..Len(header) : header[i] = col /\ i <= Len(cells)
CellOf(header, cells, col) ==
    cells[CHOOSE i \in 1..Len(header) : header[i] = col /\ i <= Len(cells)]
IsNumber(t) == \E p \in FloatTable : p[1] = t
NumberOf(t) == (CHOOSE p \in FloatTable : p[1] = t)[2]
RowOk(header, cells) ==
    /\ \A i \in 1..Len(fieldnames) : HasCell(header, cells, fieldnames[i])
    /\ \A i \in 1..Len(fieldnames) : CellOf(header, cells, fieldnames[i]) # ""
    /\ IsNumber(CellOf(header, cells, ColStipend))
    /\ NumberOf(CellOf(header, cells, ColStipend)) # 0
DataRows(f) == SelectSeq(f.rows, LAMBDA r : r # <<>>)
RowMatches(r, header, cells) ==
    /\ r.id = Str(CellOf(header, cells, ColId))
    /\ r.date = Str(CellOf(header, cells, ColDate))
    /\ r.full_name = Str(CellOf(header, cells, ColName))
    /\ r.stipend = Num(NumberOf(CellOf(header, cells, ColStipend)))
    /\ r.destination = Str(CellOf(header, cells, ColDest))

\* C3: from_csv never raises; it returns None when the file does not exist or
\* any data row lacks a column, has a stipend that is no number or fails
\* validate(); otherwise it returns a collection with one reference per data
\* row, in file order.
C3_LoadAbortsNeverRaises ==
    out.op = "from_csv" =>
        /\ out.res \in {"ok", "None"}
        /\ out.res = "ok" <=>
              (fs.exists /\ \A i \in 1..Len(DataRows(fs)) :
                                RowOk(fs.header, DataRows(fs)[i]))
        /\ out.res = "ok" =>
              /\ Len(data) = Len(DataRows(fs))
              /\ \A i \in 1..Len(data) :
                    RowMatches(data[i], fs.header, DataRows(fs)[i])

\* the same with the rows that have no stipend cell left aside: the part of
\* C3 the code does satisfy
C3_ExceptShortRows ==
    (out.op = "from_csv" /\ out.res # "raise") =>
        /\ out.res \in {"ok", "None"}
        /\ out.res = "ok" <=>
              (fs.exists /\ \A i \in 1..Len(DataRows(fs)) :
                                RowOk(fs.header, DataRows(fs)[i]))
        /\ out.res = "ok" =>
              /\ Len(data) = Len(DataRows(fs))
              /\ \A i \in 1..Len(data) :
                    RowMatches(data[i], fs.header, DataRows(fs)[i])

\* two records hold the same five field values
SameFields(r, q) == \A i \in 1..Len(_fields) : r[_fields[i]] = q[_fields[i]]
SameContent(d, e) ==
    /\ Len(d) = Len(e)
    /\ \A i \in 1..Len(d) : SameFields(d[i], e[i])

\* C4 as stated: for every collection, save_to_csv followed by from_csv of the
\* same path returns a collection of as many references, in the same order,
\* with equal fields.
C4_Original ==
    [][(out.op = "save_to_csv" /\ out'.op = "from_csv") =>
        (out'.res = "ok" /\ SameContent(data, data'))]_vars

\* C4 as amended: the same, for every collection that is not empty and whose
\* references all pass validate().
C4_RoundTripOfValidNonEmpty ==
    [][(/\ out.op = "save_to_csv" /\ out'.op = "from_csv"
        /\ data # <<>>
        /\ \A i \in 1..Len(data) : Validate(data[i]) = "ok") =>
        (out'.res = "ok" /\ SameContent(data, data'))]_vars

\* two valid references with different names and stipends have been saved
\* and loaded back (no file of InitCsv holds these two rows)
C4_Witness ==
    /\ out.op = "from_csv" /\ out.res = "ok"
    /\ Len(data) = 2
    /\ data[1].full_name = Str("B") /\ data[1].stipend = Num(900)
    /\ data[2].full_name = Str("A") /\ data[2].stipend = Num(1500)
    /\ fs.rows = <<<<"A", "A", "B", "900.0", "A">>, <<"A", "A", "A", "1500.0", "A">>>>

-----------------------------------------------------------------------------
(* SpecIter: two for-loops over the same collection.  `for x in c` calls   *)
(* c.__iter__() once, which returns c itself, and then c.__next__() until  *)
(* StopIteration; seen is what the loop has been handed so far.            *)

InitIter ==
    /\ data \in UNION {Saveable(n) : n \in 0..MaxLen}
    /\ index = Unset /\ fs = NoFile /\ out = Idle
    /\ rec = StudentReference(<<>>, 1)
    /\ loops = NoLoops /\ collection = "None" /\ pc = "menu"

\* the loop starts (or starts again after it has ended): __iter__()
LoopBegin(i) ==
    /\ loops[i].st \in {"idle", "done"}
    /\ index' = 0
    /\ loops' = [loops EXCEPT ![i] = [st |-> "running", seen |-> <<>>]]
    /\ out' = [op |-> "__iter__", res |-> "ok"]
    /\ UNCHANGED <<rec, data, fs, collection, pc>>

\* the loop asks for its next element: __next__()
LoopStep(i) ==
    /\ loops[i].st = "running"
    /\ Len(loops[i].seen) <= MaxLen
    /\ index' = NextItem(data, index).index
    /\ out' = [op |-> "__next__", res |-> NextItem(data, index).res,
               item |-> NextItem(data, index).item]
    /\ loops' = [loops EXCEPT ![i] =
                    IF NextItem(data, index).res = "ok"
                    THEN [st |-> "running",
                          seen |-> Append(loops[i].seen, NextItem(data, index).item)]
                    ELSE [st |-> "done", seen |-> loops[i].seen]]
    /\ UNCHANGED <<rec, data, fs, collection, pc>>

NextIter ==
    \/ \E i \in 1..2 : LoopBegin(i)
    \/ \E i \in 1..2 : LoopStep(i)

SpecIter == InitIter /\ [][NextIter]_vars

\* C9: every iteration yields each stored reference exactly once, in stored
\* order, and then ends, also when another iteration over the same
\* collection is begun or advanced in between.
C9_EveryLoopSeesAll ==
    \A i \in 1..2 : loops[i].st = "done" => loops[i].seen = data

-----------------------------------------------------------------------------
(* SpecMain: the menu loop of main() working on data.csv, which other      *)
(* programs may replace or delete between two prompts                      *)

MainFiles ==
    {NoFile, OldFile,
     [exists |-> TRUE, header |-> fieldnames,
      rows |-> <<GoodRow, <<"A", "A", "A", "abc", "A">>>>],
     [exists |-> TRUE, header |-> fieldnames, rows |-> <<<<"A", "A", "A">>>>]}

NameInputs == {"", "A", "B"}
StipendInputs == {"900", "1500.0", "abc", "0"}
XInputs == {"900", "abc"}

InitMain ==
    /\ collection = "None" /\ pc = "menu"
    /\ data = <<>> /\ index = Unset
    /\ fs \in {NoFile, OldFile} /\ out = Idle
    /\ rec = StudentReference(<<>>, 1)
    /\ loops = NoLoops

EditFile(f) ==
    /\ pc = "menu"
    /\ fs' = f
    /\ out' = [op |-> "edit", res |-> "ok"]
    /\ UNCHANGED <<rec, data, index, loops, collection, pc>>

\* '1': os.listdir(path) raises when the path is no directory
Choice1(found) ==
    /\ pc = "menu"
    /\ pc' = IF found THEN "menu" ELSE "crashed"
    /\ out' = [op |-> "1", res |-> IF found THEN "ok" ELSE "raise"]
    /\ UNCHANGED <<rec, data, index, fs, loops, collection>>

\* '2': collection = ReferenceCollection.from_csv('data.csv')
Choice2 ==
    /\ pc = "menu"
    /\ out' = [op |-> "2", res |-> from_csv(fs).res]
    /\ CASE from_csv(fs).res = "ok" ->
              /\ collection' = "object" /\ data' = from_csv(fs).data
              /\ index' = Unset /\ pc' = "menu"
         [] from_csv(fs).res = "None" ->
              /\ collection' = "None" /\ data' = <<>>
              /\ index' = Unset /\ pc' = "menu"
         [] OTHER ->
              /\ pc' = "crashed"
              /\ UNCHANGED <<collection, data, index>>
    /\ UNCHANGED <<rec, fs, loops>>

\* '3' and '4': sort_by 'name' / 'stipend' once something is loaded
ChoiceSort(choice, field) ==
    /\ pc = "menu"
    /\ IF collection = "None"
       THEN /\ out' = [op |-> choice, res |-> "load first"]
            /\ UNCHANGED <<data, pc>>
       ELSE /\ data' \in sort_by(data, field).data
            /\ out' = [op |-> choice, res |-> sort_by(data, field).res]
            /\ pc' = IF sort_by(data, field).res = "ok" THEN "menu" ELSE "crashed"
    /\ UNCHANGED <<rec, index, fs, loops, collection>>

\* '5': only ValueError (of float()) is caught
Choice5(x) ==
    /\ pc = "menu"
    /\ IF ParseFloat(x).res # "ok"
       THEN out' = [op |-> "5", res |-> "input error"] /\ pc' = "menu"
       ELSE IF collection = "None"
            THEN out' = [op |-> "5", res |-> "raise"] /\ pc' = "crashed"
            ELSE /\ out' = [op |-> "5",
                            res |-> filter_by_stipend(data, ParseFloat(x).n).res,
                            yielded |-> filter_by_stipend(data, ParseFloat(x).n).yielded]
                 /\ pc' = IF filter_by_stipend(data, ParseFloat(x).n).res = "ok"
                          THEN "menu" ELSE "crashed"
    /\ UNCHANGED <<rec, data, index, fs, loops, collection>>

\* '6': build a reference from the typed texts, validate it, add it; every
\* exception is caught
Choice6(name, stipend) ==
    /\ pc = "menu"
    /\ LET ref == StudentReference(
                    [f \in FieldSet |->
                       CASE f = "full_name" -> Str(name)
                         [] f = "stipend" -> ToFloat(Str(stipend)).v
                         [] OTHER -> Str("A")], Len(data) + 1)
           added == ToFloat(Str(stipend)).res = "ok" /\ Validate(ref) = "ok"
                    /\ collection = "object"
       IN /\ added => Len(data) < MaxLen
          /\ data' = IF added THEN add(data, ref).data ELSE data
          /\ out' = [op |-> "6", res |-> IF added THEN "ok" ELSE "error"]
    /\ UNCHANGED <<rec, index, fs, loops, collection, pc>>

\* '7': save_to_csv('data.csv') once something is loaded
Choice7 ==
    /\ pc = "menu"
    /\ IF collection = "None"
       THEN out' = [op |-> "7", res |-> "load first"] /\ fs' = fs
       ELSE /\ fs' = save_to_csv(data, fs).fs
            /\ out' = [op |-> "7", res |-> save_to_csv(data, fs).res]
    /\ UNCHANGED <<rec, data, index, loops, collection, pc>>

\* '8': break
Choice8 ==
    /\ pc = "menu"
    /\ pc' = "exited"
    /\ out' = [op |-> "8", res |-> "ok"]
    /\ UNCHANGED <<rec, data, index, fs, loops, collection>>

NextMain ==
    \/ \E f \in MainFiles : EditFile(f)
    \/ \E found \in BOOLEAN : Choice1(found)
    \/ Choice2
    \/ ChoiceSort("3", "name")
    \/ ChoiceSort("4", "stipend")
    \/ \E x \in XInputs : Choice5(x)
    \/ \E name \in NameInputs : \E stipend \in StipendInputs : Choice6(name, stipend)
    \/ Choice7
    \/ Choice8

SpecMain == InitMain /\ [][NextMain]_vars

\* C10: when the session holds a collection and a further load fails, the
\* session still holds that collection, with the same references in the same
\* order, and goes on.
C10_FailedLoadKeepsCollection ==
    [][(collection = "object" /\ out'.op = "2" /\ out'.res # "ok") =>
        (collection' = "object" /\ data' = data /\ pc' = "menu")]_vars

\* what the session does keep: every reference it holds passes validate()
MainHoldsValid ==
    /\ collection = "None" => data = <<>>
    /\ \A i \in 1..Len(data) : IsInstance(data[i]) /\ Validate(data[i]) = "ok"

-----------------------------------------------------------------------------
(* SpecRec: one StudentReference, constructed, assigned to and validated *)

InitRec ==
    /\ rec = StudentReference(<<>>, 1)
    /\ data = <<>> /\ index = Unset /\ fs = NoFile /\ out = Idle
    /\ loops = NoLoops /\ collection = "None" /\ pc = "menu"

Construct(kw) ==
    /\ rec' = StudentReference(kw, 1)
    /\ out' = [op |-> "__init__", res |-> "ok"]
    /\ UNCHANGED <<data, index, fs, loops, collection, pc>>

\* __setattr__ after construction: a name outside _fields is refused
SetAttr(name, value) ==
    /\ IF name \notin FieldSet
       THEN /\ out' = [op |-> "__setattr__", res |-> "AttributeError"]
            /\ rec' = rec
       ELSE /\ out' = [op |-> "__setattr__", res |-> "ok"]
            /\ rec' = [rec EXCEPT ![name] = value]
    /\ UNCHANGED <<data, index, fs, loops, collection, pc>>

ValidateRec ==
    /\ out' = [op |-> "validate", res |-> Validate(rec)]
    /\ UNCHANGED <<rec, data, index, fs, loops, collection, pc>>

NextRec ==
    \/ \E kw \in TypedKwargs : Construct(kw)
    \/ \E name \in FieldSet \cup {"note"} :
         \E value \in FieldVals(name) : SetAttr(name, value)
    \/ ValidateRec

SpecRec == InitRec /\ [][NextRec]_vars

Filled(v) == v # NoneV /\ v # Str("") /\ v # Num(0)
AllFilled(r) == \A i \in 1..Len(_fields) : Filled(r[_fields[i]])

\* C7: validate() succeeds exactly when each of the five fields is set, is not
\* the empty text and is not the float 0.0; otherwise it fails with a
\* validation error; and it leaves every field of the record as it was.
C7_ValidateIffAllFilled ==
    [][out'.op = "validate" =>
        /\ rec' = rec
        /\ out'.res = (IF AllFilled(rec) THEN "ok" ELSE "ValueError")]_vars

\* a record whose only defect is stipend = 0.0 has been validated and refused
C7_Witness ==
    /\ out.op = "validate" /\ out.res = "ValueError"
    /\ rec.stipend = Num(0)
    /\ \A f \in FieldSet \ {"stipend"} : rec[f] = Str("A")

=============================================================================
